---------------------------- MODULE Spec2Model ----------------------------
(***************************************************************************)
(* N-gram speculative drafting of common/ngram-map.cpp:                    *)
(*   common_ngram_simple_draft  (the pattern-replay drafter),              *)
(*   common_ngram_map_draft     (the statistical n-gram cache, lookup),    *)
(*   common_ngram_map_accept    (the accept feedback).                     *)
(* The token history `inp` is 0-indexed in the source; the sequences here  *)
(* are 1-indexed, and At(h, i) reads the source's h[i].                    *)
(***************************************************************************)
EXTENDS Integers, Sequences, FiniteSets, TLC

\* ------------------------------------------------------------------ bounds
\* Number of distinct token ids the history draws from.
NumTokens == 2
\* Longest history explored.
MaxLen == 6
\* Largest size_key / size_ngram (n) drawn at construction.
MaxKey == 2
\* Largest size_value / size_mgram (m) drawn at construction.
MaxValue == 2
\* Largest check_rate drawn at construction.
MaxRate == 2
\* Largest min_hits drawn at construction.
MaxHits == 2
\* Largest n_accepted the caller reports.
MaxAccept == 3

\* Largest occurrence count in the count vectors the slot selection is
\* applied to exhaustively.
MaxCount == 2

\* ------------------------------------------------------- program constants
\* #define COMMON_NGRAM_MAX_VALUE_COUNT 16380
COMMON_NGRAM_MAX_VALUE_COUNT == 16380
\* COMMON_NGRAM_MAX_VALUES, the capacity of common_ngram_map_key::values:
\* the draft loops over it and dumps values[0] .. values[3], "the four values".
COMMON_NGRAM_MAX_VALUES == 4

Tokens == 1..NumTokens

VARIABLES
    inp,     \* the token history (llama_tokens), append-only
    map,     \* common_ngram_map
    state,   \* common_ngram_simple_state
    engine,  \* which implementation this generation sequence drafts with
    out      \* observation of the last call: operation, exit taken, draft, reads

vars == <<inp, map, state, engine, out>>

\* ------------------------------------------------------------------ helpers
MinOf(a, b) == IF a < b THEN a ELSE b

SetMin(S) == CHOOSE x \in S : \A y \in S : x <= y

\* h[i] of the source. An index outside the vector is undefined behaviour in
\* the source; ReadsInRange (C1) shows that no call ever makes such a read,
\* so the value chosen here is never used.
At(h, i) == IF i >= 0 /\ i < Len(h) THEN h[i + 1] ELSE 0

\* The element-wise comparison loops `for k < n: if (h[j+k] != pat[k]) break`:
\* the first k at which the window at j differs from pat, Len(pat) if none.
MismatchAt(h, j, pat) ==
    LET bad == {k \in 0..(Len(pat) - 1) : At(h, j + k) # pat[k + 1]}
    IN  IF bad = {} THEN Len(pat) ELSE SetMin(bad)

\* Mutant: the comparison stops one token short of the pattern's end.
MatchesButLast(h, j, pat) == MismatchAt(h, j, pat) >= Len(pat) - 1

\* `match` after the comparison loop: no position differed.
Matches(h, j, pat) == MismatchAt(h, j, pat) = Len(pat)

\* The history indices that comparison loop reads (it stops at the first
\* mismatch).
CmpReads(h, j, pat) ==
    {j + k : k \in 0..MinOf(MismatchAt(h, j, pat), Len(pat) - 1)}

\* pattern / key_tokens: the last n-1 history tokens followed by `sampled`.
KeyTokens(h, n, sampled) ==
    [k \in 1..n |-> IF k < n THEN At(h, Len(h) - n + k) ELSE sampled]

KeyReads(h, n) == {Len(h) - n + k : k \in 1..(n - 1)}

\* Mutant: a match followed by fewer tokens than the pattern has is passed
\* over for an earlier one.
ScanBackWithRoom(h, j, pat) ==
    LET hit == {k \in 1..j : /\ Matches(h, k, pat)
                             /\ Len(h) - (k + Len(pat)) >= Len(pat)}
    IN  IF hit = {} THEN 0 ELSE CHOOSE k \in hit : \A l \in hit : k >= l

\* Mutant: the scan keeps the last match it meets, the oldest one.
ScanOldest(h, j, pat) ==
    LET hits == {i \in 1..j : Matches(h, i, pat)}
    IN  IF hits = {} THEN 0 ELSE SetMin(hits)

\* `for (size_t j = start; j > 0; --j) { if match { match_pos = j; break; } }`
\* with match_pos = 0 when the loop ends without a match.
RECURSIVE ScanBack(_, _, _)
ScanBack(h, j, pat) ==
    IF j <= 0 THEN 0
    ELSE IF Matches(h, j, pat) THEN j
    ELSE ScanBack(h, j - 1, pat)

\* The indices read by that scan, which visited start, start-1, ..., down to
\* match_pos (or to 1 when nothing matched).
ScanReads(h, start, pat, match_pos) ==
    UNION {CmpReads(h, j, pat) :
             j \in (IF match_pos > 0 THEN match_pos ELSE 1)..start}

\* ------------------------------------------------------------ n-gram simple
\* Mutant: the throttle lets a call through one token early.
SimpleThrottledLate(idx_last_check, check_rate, cur_len) ==
    idx_last_check + check_rate > cur_len + 1

\* if (state.idx_last_check + state.config.check_rate > cur_len) return {};
SimpleThrottled(idx_last_check, check_rate, cur_len) ==
    idx_last_check + check_rate > cur_len

\* Mutant: the guard lets a history of n_draft_min + n_draft_max + 1 through.
SimpleTooShortLess(cur_len, n_draft_min, n_draft_max) ==
    cur_len < n_draft_min + n_draft_max + 1

\* if (cur_len <= n_draft_min + n_draft_max + 1) return {};
SimpleTooShort(cur_len, n_draft_min, n_draft_max) ==
    cur_len <= n_draft_min + n_draft_max + 1

\* size_t j = cur_len - n_draft_min - 1
SimpleScanStart(cur_len, n_draft_min) == cur_len - n_draft_min - 1

\* Mutant: the check is recorded one position short of the history length.
SimpleCheckedAtPrevious(cur_len) == cur_len - 1

\* state.idx_last_check = cur_len
SimpleCheckedAt(cur_len) == cur_len

\* Mutant: the copy keeps one more token back from the end of the history.
CopyMaxOneLess(cur_len, n_draft_min, n_draft_max, match_pos) ==
    MinOf(n_draft_max, cur_len - (match_pos + n_draft_min) - 1)

\* copy_max = std::min(n_draft_max, cur_len - (match_pos + n_draft_min))
CopyMax(cur_len, n_draft_min, n_draft_max, match_pos) ==
    MinOf(n_draft_max, cur_len - (match_pos + n_draft_min))

\* The observation of a call that is not a draft or that read nothing.
NoOut(op) ==
    [op |-> op, path |-> "none", sampled |-> 0, n_accepted |-> 0,
     draft |-> <<>>, match_pos |-> 0, scan_start |-> 0, reads |-> {},
     key_offset |-> 0, slot_max |-> 0, had_pending |-> FALSE,
     key_num_before |-> 0, tally |-> <<>>, key_reads |-> {},
     prev_op |-> "none", prev_path |-> "none", prev_len |-> 0]

\* common_ngram_simple_draft: the new state and the observation of the call.
SimpleDraftResult(st, h, sampled) ==
    LET cur_len == Len(h)
        n_draft_min == st.size_ngram
        n_draft_max == st.size_mgram
        base == [NoOut("simple_draft") EXCEPT !.sampled = sampled]
    IN  IF SimpleThrottled(st.idx_last_check, st.check_rate, cur_len)
        THEN [state |-> st, out |-> [base EXCEPT !.path = "throttled"]]
        ELSE IF SimpleTooShort(cur_len, n_draft_min, n_draft_max)
        THEN [state |-> st, out |-> [base EXCEPT !.path = "too_short"]]
        ELSE
          LET pattern == KeyTokens(h, n_draft_min, sampled)
              st2 == [st EXCEPT !.idx_last_check = SimpleCheckedAt(cur_len)]
              start == SimpleScanStart(cur_len, n_draft_min)
              match_pos == ScanBack(h, start, pattern)
              rd == KeyReads(h, n_draft_min)
                      \cup ScanReads(h, start, pattern, match_pos)
              searched == [base EXCEPT !.scan_start = start, !.reads = rd,
                                       !.match_pos = match_pos]
          IN  IF match_pos = 0
              THEN [state |-> st2, out |-> [searched EXCEPT !.path = "no_match"]]
              ELSE
                LET copy_max == CopyMax(cur_len, n_draft_min, n_draft_max, match_pos)
                IN  IF copy_max < n_draft_min
                    THEN [state |-> st2,
                          out |-> [searched EXCEPT !.path = "short_copy"]]
                    ELSE [state |-> st2,
                          out |-> [searched EXCEPT
                             !.path = "drafted",
                             !.draft = [j \in 1..copy_max |->
                                          At(h, match_pos + n_draft_min + j - 1)],
                             !.reads = rd \cup {match_pos + n_draft_min + j :
                                                  j \in 0..(copy_max - 1)}]]

\* --------------------------------------------------------------- n-gram map
\* Mutant: the guard leaves no room for the value m-gram.
MapTooShortNoValue(cur_len, n, m) == cur_len < 2 * n

\* Mutant: the guard counts the key once.
MapTooShortOneKey(cur_len, n, m) == cur_len < n + m

\* if (cur_len < static_cast<size_t>(2 * n + m)) return;
MapTooShort(cur_len, n, m) == cur_len < 2 * n + m

\* Mutant: the throttle lets a call through one token early.
MapThrottledLate(idx_last_check, check_rate, cur_len) ==
    idx_last_check + check_rate > cur_len + 1

\* if (map.idx_last_check + map.check_rate > cur_len) return;
MapThrottled(idx_last_check, check_rate, cur_len) ==
    idx_last_check + check_rate > cur_len

\* Mutant: the check is recorded one token before the end of the history.
CheckedAtPrevious(cur_len) == cur_len - 1

\* map.idx_last_check = cur_len;
CheckedAt(cur_len) == cur_len

\* Mutant: the scan starts without leaving room for the value m-gram.
MapScanStartNoValue(cur_len, n, m) == cur_len - n - 1

\* size_t j = cur_len - n - m - 1
MapScanStart(cur_len, n, m) == cur_len - n - m - 1

\* Mutant: the first entry of map.keys is not compared with the key.
FindKeySkipFirst(keys, h, key_tokens, i) ==
    LET hit == {k \in (i + 1)..(Len(keys) - 1) :
                  Matches(h, keys[k + 1].key_idx, key_tokens)}
    IN  IF hit = {} THEN Len(keys) ELSE SetMin(hit)

\* The loop over map.keys: the offset of the first entry whose n tokens at
\* key_idx equal the key, map.keys.size() if there is none.
RECURSIVE FindKey(_, _, _, _)
FindKey(keys, h, key_tokens, i) ==
    IF i >= Len(keys) THEN Len(keys)
    ELSE IF Matches(h, keys[i + 1].key_idx, key_tokens) THEN i
    ELSE FindKey(keys, h, key_tokens, i + 1)

\* The indices that loop reads: entries 0..key_offset, or all of them.
FindKeyReads(keys, h, key_tokens, key_offset) ==
    UNION {CmpReads(h, keys[i + 1].key_idx, key_tokens) :
             i \in 0..MinOf(key_offset, Len(keys) - 1)}

\* A value slot as the new key-entry holds it: value_num = 0, n_accepted = m
\* are set by the loop; value_idx keeps the member's default, 0 = unused.
EmptyValue(m) == [value_idx |-> 0, value_num |-> 0, n_accepted |-> m]

\* Mutant: the new key-entry is anchored one position before the match.
NewKeyBefore(match_pos, m) ==
    [key_idx |-> match_pos - 1, stat_idx |-> 0, key_num |-> 0,
     values |-> [v \in 1..COMMON_NGRAM_MAX_VALUES |-> EmptyValue(m)]]

\* Mutant: the new key-entry starts with one hit already counted.
NewKeyCounted(match_pos, m) ==
    [key_idx |-> match_pos, stat_idx |-> 0, key_num |-> 1,
     values |-> [v \in 1..COMMON_NGRAM_MAX_VALUES |-> EmptyValue(m)]]

\* common_ngram_map_key new_key
NewKey(match_pos, m) ==
    [key_idx |-> match_pos, stat_idx |-> 0, key_num |-> 0,
     values |-> [v \in 1..COMMON_NGRAM_MAX_VALUES |-> EmptyValue(m)]]

\* Mutant: the new key-entry is put in front of the others.
PushFront(keys, new_key) == <<new_key>> \o keys

\* map.keys.push_back(new_key)
PushBack(keys, new_key) == Append(keys, new_key)

\* Mutant: the counter is left as it is.
NoInc(x) == x

\* Mutant: the increment is a plain 16-bit one.
WrapInc(x) == (x + 1) % 65536

\* (uint16_t) std::min((int) x + 1, (int) COMMON_NGRAM_MAX_VALUE_COUNT)
SatInc(x) == MinOf(x + 1, COMMON_NGRAM_MAX_VALUE_COUNT)

\* `for j < m: if (inp[a + j] != inp[b + j]) break`: first differing j, m if
\* the two m-grams are equal.
MGramMismatch(h, a, b, m) ==
    LET bad == {j \in 0..(m - 1) : At(h, a + j) # At(h, b + j)}
    IN  IF bad = {} THEN m ELSE SetMin(bad)

MGramReads(h, a, b, m) ==
    LET last == MinOf(MGramMismatch(h, a, b, m), m - 1)
    IN  {a + j : j \in 0..last} \cup {b + j : j \in 0..last}

\* Mutant: the slots are not compared with the m-gram, the first empty slot
\* is taken.
FindSlotNoCompare(values, h, idx_begin_value_key, m, v) ==
    LET empty == {w \in v..(COMMON_NGRAM_MAX_VALUES - 1) :
                    values[w + 1].value_idx = 0}
    IN  IF empty = {} THEN -1 ELSE SetMin(empty)

\* Mutant: when every slot holds another m-gram, the last slot is taken.
FindSlotEvict(values, h, idx_begin_value_key, m, v) ==
    LET found == {w \in v..(COMMON_NGRAM_MAX_VALUES - 1) :
                    \/ values[w + 1].value_idx = 0
                    \/ MGramMismatch(h, idx_begin_value_key,
                                     values[w + 1].value_idx, m) = m}
    IN  IF found = {} THEN COMMON_NGRAM_MAX_VALUES - 1 ELSE SetMin(found)

\* The loop over the value slots for the m-gram at idx_begin_value_key: the
\* first slot that is empty (value_idx == 0) or holds an equal m-gram; -1 if
\* all slots are taken by other m-grams.
RECURSIVE FindSlot(_, _, _, _, _)
FindSlot(values, h, idx_begin_value_key, m, v) ==
    IF v >= COMMON_NGRAM_MAX_VALUES THEN -1
    ELSE IF values[v + 1].value_idx = 0 THEN v
    ELSE IF MGramMismatch(h, idx_begin_value_key, values[v + 1].value_idx, m) = m
         THEN v
    ELSE FindSlot(values, h, idx_begin_value_key, m, v + 1)

\* The indices that loop reads: one m-gram comparison per occupied slot up
\* to the slot found (all slots when none is found).
FindSlotReads(values, h, idx_begin_value_key, m, idx_value) ==
    UNION {IF values[v + 1].value_idx = 0 THEN {}
           ELSE MGramReads(h, idx_begin_value_key, values[v + 1].value_idx, m) :
             v \in 0..(IF idx_value < 0 THEN COMMON_NGRAM_MAX_VALUES - 1
                       ELSE idx_value)}

\* Mutant: an attributed occurrence adds two to the count.
TallyTwice(value_num) == MinOf(value_num + 2, COMMON_NGRAM_MAX_VALUE_COUNT)

\* The count a slot gets when an occurrence is attributed to it.
\* values[idx_value].value_num = min(value_num + 1, MAX_VALUE_COUNT)
Tally(value_num) == SatInc(value_num)

\* Mutant: the occurrence that claims an empty slot is not counted.
ProcessOccurrenceClaimOnly(values, h, i, n, m) ==
    LET idx_begin_value_key == i + n
        idx_value == FindSlot(values, h, idx_begin_value_key, m, 0)
    IN  IF idx_value < 0 THEN values
        ELSE IF values[idx_value + 1].value_idx = 0
        THEN [values EXCEPT ![idx_value + 1] =
                [value_idx |-> idx_begin_value_key, value_num |-> 0,
                 n_accepted |-> m]]
        ELSE [values EXCEPT ![idx_value + 1].value_num = Tally(@)]

\* One key occurrence at index i: the slot found is claimed if it was empty
\* (value_idx, value_num = 0, n_accepted = m), and then tallied.
ProcessOccurrence(values, h, i, n, m) ==
    LET idx_begin_value_key == i + n
        idx_value == FindSlot(values, h, idx_begin_value_key, m, 0)
    IN  IF idx_value < 0 THEN values
        ELSE
          LET claimed ==
                IF values[idx_value + 1].value_idx = 0
                THEN [values EXCEPT ![idx_value + 1] =
                        [value_idx |-> idx_begin_value_key, value_num |-> 0,
                         n_accepted |-> m]]
                ELSE values
          IN  [claimed EXCEPT ![idx_value + 1].value_num = Tally(@)]

\* `for (size_t i = curr_key.stat_idx; i <= match_pos; ++i)`: the value
\* slots after the loop, and the history indices it read.
RECURSIVE Refresh(_, _, _, _, _, _, _)
Refresh(values, reads, h, key_tokens, i, match_pos, m) ==
    IF i > match_pos THEN [values |-> values, reads |-> reads]
    ELSE
      LET n == Len(key_tokens)
          rk == CmpReads(h, i, key_tokens)
      IN  IF ~Matches(h, i, key_tokens)
          THEN Refresh(values, reads \cup rk, h, key_tokens, i + 1, match_pos, m)
          ELSE Refresh(ProcessOccurrence(values, h, i, n, m),
                       reads \cup rk \cup
                         FindSlotReads(values, h, i + n, m,
                                       FindSlot(values, h, i + n, m, 0)),
                       h, key_tokens, i + 1, match_pos, m)

\* The same loop, observed: one record per key occurrence it met, in order,
\* with the index i, the slot found (idx_value, -1 if none), whether the
\* slot was empty and claimed, and value_num before and after the increment.
RECURSIVE RefreshSteps(_, _, _, _, _, _)
RefreshSteps(values, h, key_tokens, i, match_pos, m) ==
    IF i > match_pos THEN <<>>
    ELSE IF ~Matches(h, i, key_tokens)
    THEN RefreshSteps(values, h, key_tokens, i + 1, match_pos, m)
    ELSE
      LET n == Len(key_tokens)
          idx_value == FindSlot(values, h, i + n, m, 0)
          after == ProcessOccurrence(values, h, i, n, m)
      IN  <<[i |-> i, idx_value |-> idx_value,
             claimed |-> idx_value >= 0 /\ values[idx_value + 1].value_idx = 0,
             before |-> IF idx_value < 0 THEN 0
                        ELSE values[idx_value + 1].value_num,
             value_num |-> IF idx_value < 0 THEN 0
                           ELSE after[idx_value + 1].value_num]>>
          \o RefreshSteps(after, h, key_tokens, i + 1, match_pos, m)

\* Mutant: the refresh leaves scan progress one past the match.
StatIdxPastMatch(match_pos) == match_pos + 1

\* curr_key.stat_idx = match_pos, after the statistics loop
StatIdxAfter(match_pos) == match_pos

\* Mutant: a later slot with an equal count replaces the choice.
ExceedsOrEquals(curr_occur, max_occur) == curr_occur >= max_occur

\* `if (curr_occur > max_occur) { max_occur = curr_occur; slot_max = v; }`
Exceeds(curr_occur, max_occur) == curr_occur > max_occur

\* The loop that picks slot_max, from slot v on.
RECURSIVE SlotMaxFrom(_, _, _, _)
SlotMaxFrom(values, v, max_occur, slot_max) ==
    IF v >= COMMON_NGRAM_MAX_VALUES
    THEN [max_occur |-> max_occur, slot_max |-> slot_max]
    ELSE IF Exceeds(values[v + 1].value_num, max_occur)
    THEN SlotMaxFrom(values, v + 1, values[v + 1].value_num, v)
    ELSE SlotMaxFrom(values, v + 1, max_occur, slot_max)

\* uint32_t sum_occur: the counts of the slots other than slot_max.
RECURSIVE SumOccurFrom(_, _, _)
SumOccurFrom(values, slot_max, v) ==
    IF v >= COMMON_NGRAM_MAX_VALUES THEN 0
    ELSE (IF v = slot_max THEN 0 ELSE values[v + 1].value_num)
           + SumOccurFrom(values, slot_max, v + 1)

\* Mutant: a leader at exactly three times the rest is rejected too.
GateRejectsAtEqual(max_occur, sum_occur) ==
    sum_occur > 0 /\ max_occur <= 3 * sum_occur

\* if (sum_occur > 0 && max_occur < 3 * sum_occur) return;
GateRejects(max_occur, sum_occur) ==
    sum_occur > 0 /\ max_occur < 3 * sum_occur

\* Mutant: a slot whose accepted length is 0 is drafted at full length.
NDraftTokensNeverEmpty(m, n_accepted) ==
    IF n_accepted = 0 THEN m ELSE MinOf(m, n_accepted)

\* Mutant: the draft length is the stored accepted length, not capped at m.
NDraftTokensUncapped(m, n_accepted) == n_accepted

\* Mutant: the draft always has the full length m.
NDraftTokensFull(m, n_accepted) == m

\* int n_draft_tokens = std::min((int) m, (int) n_accepted)
NDraftTokens(m, n_accepted) == MinOf(m, n_accepted)

\* Mutant: the copy starts at the key instead of after it.
DraftTokensFromKey(h, match_pos, n, n_draft_tokens) ==
    [i \in 1..n_draft_tokens |-> At(h, match_pos + i - 1)]

\* for (i < n_draft_tokens) draft.push_back(inp[match_pos + n + i]);
DraftTokens(h, match_pos, n, n_draft_tokens) ==
    [i \in 1..n_draft_tokens |-> At(h, match_pos + n + i - 1)]

DraftReads(match_pos, n, n_draft_tokens) ==
    {match_pos + n + i : i \in 0..(n_draft_tokens - 1)}

\* Mutant: the test lets a key through one lookup early.
TooFewHitsLate(key_num, min_hits) == key_num + 1 < min_hits

\* if (curr_key.key_num < map.min_hits) return;
TooFewHits(key_num, min_hits) == key_num < min_hits

\* Mutant: the key-only draft is recorded as pending.
KeyOnlyDraftRecorded == TRUE

\* map.last_draft_created = false, in the key_only branch
KeyOnlyDraftCreated == FALSE

\* Mutant: the indices are reset but the draft stays recorded as pending.
ResetIndicesOnly(mp) ==
    [mp EXCEPT !.last_draft_key_idx = 0, !.last_draft_value_idx = 0]

\* Mutant: the record of the last draft is not reset.
KeepLastDraft(mp) == mp

\* map.last_draft_created = false; last_draft_key_idx = 0; last_draft_value_idx = 0;
ResetLastDraft(mp) ==
    [mp EXCEPT !.last_draft_created = FALSE, !.last_draft_key_idx = 0,
               !.last_draft_value_idx = 0]

\* The history indices the value dump reads (common_tokens_to_str of every
\* slot with value_idx != 0).
LogReads(values, m) ==
    UNION {IF values[v].value_idx = 0 THEN {}
           ELSE {values[v].value_idx + i : i \in 0..(m - 1)} :
             v \in 1..COMMON_NGRAM_MAX_VALUES}

\* common_ngram_map_draft: the new map and the observation of the call.
MapDraftResult(mp, h, sampled) ==
    LET cur_len == Len(h)
        n == mp.size_key
        m == mp.size_value
        m0 == ResetLastDraft(mp)
        base == [NoOut("map_draft") EXCEPT !.sampled = sampled,
                                           !.had_pending = mp.last_draft_created]
    IN  IF MapTooShort(cur_len, n, m)
        THEN [map |-> m0, out |-> [base EXCEPT !.path = "too_short"]]
        ELSE IF MapThrottled(m0.idx_last_check, m0.check_rate, cur_len)
        THEN [map |-> m0, out |-> [base EXCEPT !.path = "throttled"]]
        ELSE
          LET m1 == [m0 EXCEPT !.idx_last_check = CheckedAt(cur_len)]
              key_tokens == KeyTokens(h, n, sampled)
              start == MapScanStart(cur_len, n, m)
              match_pos == ScanBack(h, start, key_tokens)
              rd1 == KeyReads(h, n) \cup ScanReads(h, start, key_tokens, match_pos)
              searched == [base EXCEPT !.scan_start = start, !.reads = rd1,
                                       !.match_pos = match_pos]
          IN  IF match_pos = 0
              THEN [map |-> m1, out |-> [searched EXCEPT !.path = "no_match"]]
              ELSE
                LET key_offset == FindKey(m1.keys, h, key_tokens, 0)
                    rd2 == rd1 \cup FindKeyReads(m1.keys, h, key_tokens, key_offset)
                    keys1 == IF key_offset = Len(m1.keys)
                             THEN PushBack(m1.keys, NewKey(match_pos, m))
                             ELSE m1.keys
                    keys2 == [keys1 EXCEPT ![key_offset + 1].key_num = SatInc(@)]
                    curr_key == keys2[key_offset + 1]
                    resolved == [searched EXCEPT
                                   !.key_offset = key_offset,
                                   !.key_num_before = keys1[key_offset + 1].key_num,
                                   !.reads = rd2]
                IN  IF mp.key_only
                    THEN
                      LET nd == NDraftTokens(m, curr_key.values[1].n_accepted)
                      IN  [map |-> [m1 EXCEPT !.keys = keys2,
                                              !.last_draft_created = KeyOnlyDraftCreated,
                                              !.last_draft_key_idx = key_offset,
                                              !.last_draft_value_idx = 0],
                           out |-> [resolved EXCEPT
                              !.path = "key_only",
                              !.draft = DraftTokens(h, match_pos, n, nd),
                              !.reads = rd2 \cup DraftReads(match_pos, n, nd)]]
                    ELSE IF TooFewHits(curr_key.key_num, mp.min_hits)
                    THEN [map |-> [m1 EXCEPT !.keys = keys2],
                          out |-> [resolved EXCEPT !.path = "min_hits"]]
                    ELSE
                      LET rf == Refresh(curr_key.values, {}, h, key_tokens,
                                        curr_key.stat_idx, match_pos, m)
                          keys3 == [keys2 EXCEPT
                                      ![key_offset + 1].values = rf.values,
                                      ![key_offset + 1].stat_idx =
                                         StatIdxAfter(match_pos)]
                          sel == SlotMaxFrom(rf.values, 0, 0, 0)
                          sum_occur == SumOccurFrom(rf.values, sel.slot_max, 0)
                          rd3 == rd2 \cup rf.reads \cup LogReads(rf.values, m)
                          gated == [resolved EXCEPT
                                      !.slot_max = sel.slot_max,
                                      !.tally = RefreshSteps(
                                                  curr_key.values, h, key_tokens,
                                                  curr_key.stat_idx, match_pos, m),
                                      !.reads = rd3]
                      IN  IF GateRejects(sel.max_occur, sum_occur)
                          THEN [map |-> [m1 EXCEPT !.keys = keys3],
                                out |-> [gated EXCEPT !.path = "gate_reject"]]
                          ELSE
                            LET nd == NDraftTokens(
                                        m, rf.values[sel.slot_max + 1].n_accepted)
                            IN  [map |-> [m1 EXCEPT
                                            !.keys = keys3,
                                            !.last_draft_created = TRUE,
                                            !.last_draft_key_idx = key_offset,
                                            !.last_draft_value_idx = sel.slot_max],
                                 out |-> [gated EXCEPT
                                    !.path = "drafted",
                                    !.draft = DraftTokens(h, match_pos, n, nd),
                                    !.reads = rd3 \cup DraftReads(match_pos, n, nd)]]

\* Mutant: the feedback only ever lowers the stored length.
FeedbackMin(old_n_accepted, n_accepted) == MinOf(old_n_accepted, n_accepted)

\* curr_value.n_accepted = n_accepted;
Feedback(old_n_accepted, n_accepted) == n_accepted

\* Mutant: the feedback is taken once, the record of the draft is dropped.
MapAcceptOnce(mp, n_accepted) ==
    IF ~mp.last_draft_created THEN mp
    ELSE [mp EXCEPT
            !.keys[mp.last_draft_key_idx + 1].values[mp.last_draft_value_idx + 1]
                .n_accepted = n_accepted,
            !.last_draft_created = FALSE]

\* Mutant: the feedback is written without testing last_draft_created.
MapAcceptUnguarded(mp, n_accepted) ==
    IF mp.last_draft_key_idx >= Len(mp.keys) THEN mp
    ELSE [mp EXCEPT
            !.keys[mp.last_draft_key_idx + 1].values[mp.last_draft_value_idx + 1]
                .n_accepted = n_accepted]

\* common_ngram_map_accept
MapAcceptResult(mp, n_accepted) ==
    IF ~mp.last_draft_created THEN mp
    ELSE [mp EXCEPT
            !.keys[mp.last_draft_key_idx + 1].values[mp.last_draft_value_idx + 1]
                .n_accepted = Feedback(@, n_accepted)]

\* ------------------------------------------------------------------ actions
\* A fresh sequence: an empty history, and the drafting implementation the
\* sequence was configured with, freshly constructed. The two implementations
\* share no state (each only reads the history), so a sequence is followed
\* with one of them; the other keeps its constructed value.
FreshMap(n, m, ko, r, mh) ==
    [size_key |-> n, size_value |-> m, key_only |-> ko,
     check_rate |-> r, min_hits |-> mh, keys |-> <<>>,
     idx_last_check |-> 0, last_draft_created |-> FALSE,
     last_draft_key_idx |-> 0, last_draft_value_idx |-> 0]

FreshState(n, m, r) ==
    [check_rate |-> r, size_ngram |-> n, size_mgram |-> m, idx_last_check |-> 0]

Init ==
    /\ inp = <<>>
    /\ out = NoOut("init")
    /\ \E n \in 1..MaxKey, m \in 1..MaxValue, r \in 1..MaxRate :
         \/ /\ engine = "simple"
            /\ state = FreshState(n, m, r)
            /\ map = FreshMap(n, m, FALSE, r, 1)
         \/ /\ engine = "map"
            /\ state = FreshState(n, m, r)
            /\ \E mh \in 1..MaxHits, ko \in BOOLEAN :
                 map = FreshMap(n, m, ko, r, mh)

\* The decoding loop appends one token to the history.
AppendToken ==
    /\ Len(inp) < MaxLen
    /\ \E t \in Tokens : inp' = Append(inp, t)
    /\ out' = NoOut("append")
    /\ UNCHANGED <<map, state, engine>>

SimpleDraft ==
    /\ engine = "simple"
    /\ \E sampled \in Tokens :
        LET r == SimpleDraftResult(state, inp, sampled)
        IN  /\ state' = r.state
            /\ out' = r.out
    /\ UNCHANGED <<inp, map, engine>>

MapDraft ==
    /\ engine = "map"
    /\ \E sampled \in Tokens :
        LET r == MapDraftResult(map, inp, sampled)
        IN  /\ map' = r.map
            /\ out' = r.out
    /\ UNCHANGED <<inp, state, engine>>

\* Mutant: the key-entry is looked up before last_draft_created is tested.
AcceptKeyReadsUnguarded(mp) == {mp.last_draft_key_idx}

\* The offsets into map.keys that common_ngram_map_accept indexes: none
\* when it returns at `if (!map.last_draft_created) return;`, otherwise
\* map.keys[map.last_draft_key_idx].
AcceptKeyReads(mp) ==
    IF ~mp.last_draft_created THEN {} ELSE {mp.last_draft_key_idx}

\* One call of common_ngram_map_accept, observed.
AcceptWith(n_accepted) ==
    /\ map' = MapAcceptResult(map, n_accepted)
    /\ out' = [NoOut("map_accept") EXCEPT
                 !.n_accepted = n_accepted,
                 !.had_pending = map.last_draft_created,
                 !.key_reads = AcceptKeyReads(map),
                 !.key_offset = map.last_draft_key_idx,
                 !.slot_max = map.last_draft_value_idx,
                 !.prev_op = out.op, !.prev_path = out.path,
                 !.prev_len = Len(out.draft)]
    /\ UNCHANGED <<inp, state, engine>>

\* The feedback call, at any time and with any count.
MapAccept ==
    /\ engine = "map"
    /\ \E n_accepted \in 0..MaxAccept : AcceptWith(n_accepted)

\* The feedback call as the decoding loop makes it: at most once after a
\* draft call, with 0 <= n_accepted <= len(draft).
AcceptInContract ==
    /\ engine = "map"
    /\ out.op = "map_draft"
    /\ \E n_accepted \in 0..Len(out.draft) : AcceptWith(n_accepted)

Next == AppendToken \/ SimpleDraft \/ MapDraft \/ MapAccept

Spec == Init /\ [][Next]_vars

\* ---------------------------------------------------------------- long run
\* One sequence followed over a long, repetitive text, so that occurrence
\* counts grow: a cache with n = m = 1, check_rate = 1, min_hits = 1 in
\* statistical mode, a decoding loop that generates 2 at position 0 and then
\* 1 1 1 2 over and over, and feedback given as the decoding loop gives it.
LongLen == 12

LongText(i) == IF i % 4 = 0 THEN 2 ELSE 1

InitLong ==
    /\ inp = <<>>
    /\ out = NoOut("init")
    /\ engine = "map"
    /\ state = FreshState(1, 1, 1)
    /\ map = FreshMap(1, 1, FALSE, 1, 1)

AppendLong ==
    /\ Len(inp) < LongLen
    /\ inp' = Append(inp, LongText(Len(inp)))
    /\ out' = NoOut("append")
    /\ UNCHANGED <<map, state, engine>>

NextLong == AppendLong \/ MapDraft \/ AcceptInContract

LongSpec == InitLong /\ [][NextLong]_vars

\* ----------------------------------------------------------- saturation run
\* One sequence whose decoding loop asks for a draft again and again without
\* generating a token: a cache with n = m = 1, min_hits = 1 in statistical
\* mode and check_rate = 0 (no throttle), constructed over a prompt in which
\* the key 1 has an eligible occurrence. Every such call is a matched lookup
\* and refreshes the statistics, so the counters are driven to their cap.
SatPrompt == <<2, 1, 1, 1>>

InitSat ==
    /\ inp = SatPrompt
    /\ out = NoOut("init")
    /\ engine = "map"
    /\ state = FreshState(1, 1, 0)
    /\ map = FreshMap(1, 1, FALSE, 0, 1)

NextSat == MapDraft \/ AcceptInContract

SatSpec == InitSat /\ [][NextSat]_vars

\* ------------------------------------------------------------ crowded run
\* One sequence over a text in which the key 1 is followed by more distinct
\* continuations than a KeyEntry has slots: 2 2, 2 3, 3 2, 3 3, then 4 4, then
\* 2 2 again. A cache with n = 1, m = 2, check_rate = 3, min_hits = 1 in
\* statistical mode; the decoding loop appends the text and asks for drafts.
FullLen == 19

FullScript == <<1, 2, 2, 1, 2, 3, 1, 3, 2, 1, 3, 3, 1, 4, 4, 1, 2, 2, 2>>

FullText(i) == FullScript[(i % Len(FullScript)) + 1]

InitFull ==
    /\ inp = <<>>
    /\ out = NoOut("init")
    /\ engine = "map"
    /\ state = FreshState(1, 2, 3)
    /\ map = FreshMap(1, 2, FALSE, 3, 1)

AppendFull ==
    /\ Len(inp) < FullLen
    /\ inp' = Append(inp, FullText(Len(inp)))
    /\ out' = NoOut("append")
    /\ UNCHANGED <<map, state, engine>>

NextFull == AppendFull \/ MapDraft

FullSpec == InitFull /\ [][NextFull]_vars

\* ------------------------------------------------- vocabulary of the claims
SetMax(S) == CHOOSE x \in S : \A y \in S : x >= y

\* The n tokens of h at (0-based) positions j .. j+n-1.
Window(h, j, n) == [k \in 1..n |-> h[j + k]]

\* The key of a call: the last n-1 history tokens followed by the sampled one.
KeyOf(h, n, sampled) == SubSeq(h, Len(h) - n + 2, Len(h)) \o <<sampled>>

\* The positions 1 <= j <= last at which the n-gram `key` occurs in h.
Occurrences(h, key, last) ==
    {j \in 1..last : Window(h, j, Len(key)) = key}

RejectPaths == {"too_short", "throttled", "no_match", "min_hits", "gate_reject"}

\* C1: every history index a draft call reads lies in [0, len(history)-1],
\* and the start index of its backward scan is not below 0.
ReadsInRange ==
    /\ out.reads \subseteq 0..(Len(inp) - 1)
    /\ out.scan_start >= 0

\* C1 witness: a map draft that went through key search, KeyEntry resolution,
\* statistics refresh and draft copy, and read both ends of the history.
ReadsInRangeWitness ==
    /\ out.op = "map_draft" /\ out.path = "drafted" /\ out.draft # <<>>
    /\ 0 \in out.reads
    /\ (Len(inp) - 1) \in out.reads

\* The slot the selection must pick: the lowest index among the slots with
\* the largest occurrence count (1-based).
BestSlot(values) ==
    SetMin({v \in 1..COMMON_NGRAM_MAX_VALUES :
              \A w \in 1..COMMON_NGRAM_MAX_VALUES :
                 values[v].value_num >= values[w].value_num})

\* The first entry of keys whose n tokens at key_idx are `key` (1-based),
\* 0 if there is none.
ResolvedEntry(keys, h, key) ==
    LET hit == {i \in 1..Len(keys) : Window(h, keys[i].key_idx, Len(key)) = key}
    IN  IF hit = {} THEN 0 ELSE SetMin(hit)

\* C2: in statistical mode, when the confidence gate passes, the draft is the
\* min(m, accepted_length of slot_max) tokens that follow the most recent key
\* match, and pending_draft = (resolved KeyEntry, slot_max).
StatDraftOnPass ==
    (out.op = "map_draft" /\ out.path = "drafted") =>
        LET n == map.size_key
            m == map.size_value
            key == KeyOf(inp, n, out.sampled)
            occ == Occurrences(inp, key, Len(inp) - n - m - 1)
            k == ResolvedEntry(map.keys, inp, key)
        IN  /\ ~map.key_only
            /\ occ # {}
            /\ k # 0
            /\ LET match_pos == SetMax(occ)
                   best == BestSlot(map.keys[k].values)
                   len == MinOf(m, map.keys[k].values[best].n_accepted)
               IN  /\ Len(out.draft) = len
                   /\ out.draft = [i \in 1..len |-> inp[match_pos + n + i]]
                   /\ map.last_draft_created
                   /\ map.last_draft_key_idx = k - 1
                   /\ map.last_draft_value_idx = best - 1

\* C2 witness: a passed gate whose draft is cut below m by the accepted
\* length of the selected slot.
StatDraftOnPassWitness ==
    /\ out.op = "map_draft" /\ out.path = "drafted"
    /\ map.size_value = 2
    /\ Len(out.draft) = 1

\* C4: accept with pending_draft set overwrites accepted_length of exactly
\* the referenced ValueEntry with accepted_count and changes nothing else;
\* with pending_draft none it changes nothing.
AcceptFrame ==
    [][out'.op = "map_accept" =>
         /\ Len(map'.keys) = Len(map.keys)
         /\ \A i \in 1..Len(map.keys) :
              /\ map'.keys[i].key_idx = map.keys[i].key_idx
              /\ map'.keys[i].stat_idx = map.keys[i].stat_idx
              /\ map'.keys[i].key_num = map.keys[i].key_num
              /\ \A v \in 1..COMMON_NGRAM_MAX_VALUES :
                   /\ map'.keys[i].values[v].value_idx = map.keys[i].values[v].value_idx
                   /\ map'.keys[i].values[v].value_num = map.keys[i].values[v].value_num
                   /\ map'.keys[i].values[v].n_accepted =
                        IF /\ map.last_draft_created
                           /\ i = map.last_draft_key_idx + 1
                           /\ v = map.last_draft_value_idx + 1
                        THEN out'.n_accepted
                        ELSE map.keys[i].values[v].n_accepted
         /\ map'.idx_last_check = map.idx_last_check
         /\ map'.last_draft_created = map.last_draft_created
         /\ map'.last_draft_key_idx = map.last_draft_key_idx
         /\ map'.last_draft_value_idx = map.last_draft_value_idx
      ]_vars

\* C4 witness: an accept with pending_draft set that stored an accepted_count
\* above the old accepted_length (and above m) in the referenced slot.
AcceptFrameWitness ==
    /\ out.op = "map_accept" /\ out.had_pending
    /\ out.n_accepted > map.size_value
    /\ map.keys[out.key_offset + 1].values[out.slot_max + 1].n_accepted
         = out.n_accepted

\* C5: a map draft call that ends on a rejection path leaves pending_draft
\* none, whatever the previous call had set, and an accept that follows it
\* modifies no entry.
StaleFeedbackCleared ==
    [][/\ (out'.op = "map_draft" /\ out'.path \in RejectPaths)
            => ~map'.last_draft_created
       /\ (out.op = "map_draft" /\ out.path \in RejectPaths
             /\ out'.op = "map_accept")
            => map'.keys = map.keys
      ]_vars

\* C5 witness: a draft call that ended on a rejection path after the draft
\* call before it had set pending_draft.
StaleFeedbackClearedWitness ==
    /\ out.op = "map_draft" /\ out.path \in RejectPaths
    /\ out.had_pending
    /\ ~map.last_draft_created

\* C6 as stated: accept after a map draft call that returned an empty draft
\* mutates no KeyEntry or ValueEntry field, for every accepted_count.
AcceptAfterEmptyIsNoop ==
    [][(out.op = "map_draft" /\ out.draft = <<>> /\ out'.op = "map_accept")
         => map'.keys = map.keys]_vars

\* C6 amended: accept after a map draft call that returned an empty draft
\* mutates no entry when that call left pending_draft none, or when
\* accepted_count <= len(draft) = 0.
AcceptAfterEmptyIsNoopInContract ==
    [][(/\ out.op = "map_draft" /\ out.draft = <<>> /\ out'.op = "map_accept"
        /\ (~map.last_draft_created \/ out'.n_accepted <= Len(out.draft)))
         => map'.keys = map.keys]_vars

\* C6 witness: accept(0) after an empty draft that passed the gate and left
\* pending_draft set.
AcceptAfterEmptyWitness ==
    /\ out.op = "map_accept" /\ out.had_pending
    /\ out.prev_op = "map_draft" /\ out.prev_path = "drafted" /\ out.prev_len = 0
    /\ out.n_accepted = 0

\* C7: a map draft call with len(history) - last_checked_position < check_rate
\* returns an empty draft and changes no KeyEntry, appends none, and leaves
\* last_checked_position.
MapThrottleFrame ==
    [][(out'.op = "map_draft"
          /\ Len(inp) - map.idx_last_check < map.check_rate)
         => /\ out'.draft = <<>>
            /\ map'.keys = map.keys
            /\ map'.idx_last_check = map.idx_last_check]_vars

\* C7 witness: a throttled call on a history long enough to draft from, with
\* KeyEntries in the cache.
MapThrottleFrameWitness ==
    /\ out.op = "map_draft" /\ out.path = "throttled"
    /\ Len(map.keys) >= 1
    /\ Len(inp) - map.idx_last_check < map.check_rate

\* C8: a simple-drafter call with len(history) - last_checked_position <
\* check_rate returns an empty draft and leaves the drafter state unchanged.
SimpleThrottleFrame ==
    [][(out'.op = "simple_draft"
          /\ Len(inp) - state.idx_last_check < state.check_rate)
         => /\ out'.draft = <<>>
            /\ state' = state]_vars

\* C8 witness: a throttled call after an earlier search, on a history long
\* enough to search.
SimpleThrottleFrameWitness ==
    /\ out.op = "simple_draft" /\ out.path = "throttled"
    /\ state.idx_last_check > 0
    /\ Len(inp) > state.size_ngram + state.size_mgram + 1

\* C9: the simple drafter uses the largest j in 1 .. len-key_len-1 at which
\* the pattern occurs, and drafts nothing when there is none.
SimpleMostRecentMatch ==
    (out.op = "simple_draft" /\ out.path \notin {"throttled", "too_short"}) =>
        LET n == state.size_ngram
            occ == Occurrences(inp, KeyOf(inp, n, out.sampled), Len(inp) - n - 1)
        IN  /\ occ = {} => out.draft = <<>> /\ out.match_pos = 0
            /\ occ # {} =>
                 /\ out.match_pos = SetMax(occ)
                 /\ \A i \in 1..Len(out.draft) :
                      out.draft[i] = inp[SetMax(occ) + n + i]

\* C9 witness: a draft taken when the pattern occurs at two eligible
\* positions.
SimpleMostRecentMatchWitness ==
    /\ out.op = "simple_draft" /\ out.path = "drafted" /\ out.draft # <<>>
    /\ Cardinality(Occurrences(inp, KeyOf(inp, state.size_ngram, out.sampled),
                               Len(inp) - state.size_ngram - 1)) >= 2

\* C10: the map draft's match position is the largest j in 1 .. len-n-m-1 at
\* which the key occurs; when there is none the call returns an empty draft
\* and changes no KeyEntry.
MapMostRecentMatch ==
    [][(/\ out'.op = "map_draft"
        /\ Len(inp) >= 2 * map.size_key + map.size_value
        /\ Len(inp) - map.idx_last_check >= map.check_rate)
         => LET n == map.size_key
                occ == Occurrences(inp, KeyOf(inp, n, out'.sampled),
                                   Len(inp) - n - map.size_value - 1)
            IN  /\ occ = {} => /\ out'.draft = <<>>
                               /\ out'.match_pos = 0
                               /\ map'.keys = map.keys
                /\ occ # {} => out'.match_pos = SetMax(occ)]_vars

\* C10 witness: a map draft call whose key occurs at two eligible positions.
MapMostRecentMatchWitness ==
    /\ out.op = "map_draft" /\ out.draft # <<>>
    /\ Cardinality(Occurrences(inp, KeyOf(inp, map.size_key, out.sampled),
                               Len(inp) - map.size_key - map.size_value - 1)) >= 2

\* The occurrence counts of the KeyEntry the last map draft resolved.
CountsOf(values) == [v \in 1..COMMON_NGRAM_MAX_VALUES |-> values[v].value_num]

\* The sum of the counts of all slots other than slot `best` (1-based).
RECURSIVE SumExcept(_, _, _)
SumExcept(counts, best, v) ==
    IF v > Len(counts) THEN 0
    ELSE (IF v = best THEN 0 ELSE counts[v]) + SumExcept(counts, best, v + 1)

\* C3: a statistical-mode draft call that reached the confidence gate is
\* rejected (empty output, pending_draft none) if and only if sum_other > 0
\* and occurrence_count[slot_max] < 3 * sum_other; counts (9,3) pass,
\* counts (8,3) reject, a single slot with count 1 passes.
ConfidenceGate ==
    (out.op = "map_draft" /\ out.path \in {"gate_reject", "drafted"}) =>
        LET values == map.keys[out.key_offset + 1].values
            counts == CountsOf(values)
            best == BestSlot(values)
            sum_other == SumExcept(counts, best, 1)
            rejected == out.draft = <<>> /\ ~map.last_draft_created
        IN  /\ rejected <=> (sum_other > 0 /\ counts[best] < 3 * sum_other)
            /\ ~rejected => map.last_draft_created
            /\ counts = <<9, 3, 0, 0>> => ~rejected
            /\ counts = <<8, 3, 0, 0>> => rejected
            /\ counts = <<1, 0, 0, 0>> => ~rejected

\* C3 witness: the gate passed at counts (9,3), where 9 = 3 * 3.
ConfidenceGateWitness ==
    /\ out.op = "map_draft" /\ out.path = "drafted"
    /\ map.last_draft_created
    /\ CountsOf(map.keys[out.key_offset + 1].values) = <<9, 3, 0, 0>>

\* C11: when the key/pattern occurs at position 0 and at no position the
\* backward scan visits, the simple drafter and the map draft return an empty
\* draft, and the map appends no KeyEntry (nor changes one).
OnlyAtPositionZero ==
    [][/\ (/\ out'.op = "simple_draft"
           /\ Len(inp) >= state.size_ngram
           /\ LET n == state.size_ngram
                  key == KeyOf(inp, n, out'.sampled)
              IN  /\ Window(inp, 0, n) = key
                  /\ Occurrences(inp, key, Len(inp) - n - 1) = {})
            => out'.draft = <<>>
       /\ (/\ out'.op = "map_draft"
           /\ Len(inp) >= map.size_key
           /\ LET n == map.size_key
                  key == KeyOf(inp, n, out'.sampled)
              IN  /\ Window(inp, 0, n) = key
                  /\ Occurrences(inp, key, Len(inp) - n - map.size_value - 1) = {})
            => /\ out'.draft = <<>>
               /\ map'.keys = map.keys
      ]_vars

\* C11 witness: a map draft call whose backward scan ran over at least one
\* position and found nothing, the key standing at position 0 of the history.
OnlyAtPositionZeroWitness ==
    /\ out.op = "map_draft" /\ out.path = "no_match"
    /\ out.scan_start >= 1
    /\ Window(inp, 0, map.size_key) = KeyOf(inp, map.size_key, out.sampled)
    /\ map.keys = <<>>

\* C12: on a match at match_pos the simple drafter has available =
\* min(continuation_len, len - (match_pos + key_len)); it returns empty if
\* available < key_len and otherwise exactly the available tokens from
\* match_pos + key_len on, so a non-empty simple draft has a length between
\* key_len and continuation_len.
SimpleCopyLength ==
    (out.op = "simple_draft" /\ out.path \notin {"throttled", "too_short"}) =>
        LET n == state.size_ngram
            m == state.size_mgram
            occ == Occurrences(inp, KeyOf(inp, n, out.sampled), Len(inp) - n - 1)
        IN  occ # {} =>
              LET match_pos == SetMax(occ)
                  available == MinOf(m, Len(inp) - (match_pos + n))
              IN  /\ available < n => out.draft = <<>>
                  /\ available >= n =>
                       out.draft = [i \in 1..available |-> inp[match_pos + n + i]]
                  /\ out.draft # <<>> =>
                       (n <= Len(out.draft) /\ Len(out.draft) <= m)

\* C12 witness: a match so close to the end of the history that fewer than
\* key_len tokens follow it, with continuation_len >= key_len.
SimpleCopyLengthWitness ==
    /\ out.op = "simple_draft" /\ out.path = "short_copy"
    /\ out.match_pos >= 1
    /\ state.size_mgram >= state.size_ngram
    /\ Len(inp) - (out.match_pos + state.size_ngram) < state.size_ngram

\* The value slots of the KeyEntry a map draft call resolves, as they are
\* before the call: those of the existing entry, or the empty slots of the
\* entry the call appends.
SlotsBefore(keys, key_offset, m) ==
    IF key_offset < Len(keys) THEN keys[key_offset + 1].values
    ELSE [v \in 1..COMMON_NGRAM_MAX_VALUES |-> EmptyValue(m)]

\* What a refresh does with the slots it claims, `count` being the
\* occurrence count a slot has right after the occurrence that claimed it:
\* every claimed slot was free before the call, is anchored at the start of
\* the claiming continuation, and has that count; and the first occurrence
\* of the refresh, if its continuation equals that of no occupied slot and a
\* slot is free, claims the first free slot.
ClaimsFirstFreeSlot(count) ==
    out'.op = "map_draft" =>
      LET n == map.size_key
          m == map.size_value
          before == SlotsBefore(map.keys, out'.key_offset, m)
          after == map'.keys[out'.key_offset + 1].values
          tally == out'.tally
          occupied == {v \in 1..COMMON_NGRAM_MAX_VALUES : before[v].value_idx # 0}
          free == (1..COMMON_NGRAM_MAX_VALUES) \ occupied
      IN  /\ \A s \in 1..Len(tally) :
                tally[s].claimed =>
                  /\ before[tally[s].idx_value + 1].value_idx = 0
                  /\ after[tally[s].idx_value + 1].value_idx = tally[s].i + n
                  /\ tally[s].value_num = count
          /\ (/\ tally # <<>>
              /\ free # {}
              /\ \A v \in occupied :
                    Window(inp, before[v].value_idx, m)
                      # Window(inp, tally[1].i + n, m))
               => /\ tally[1].claimed
                  /\ tally[1].idx_value = SetMin(free) - 1

\* C13 as stated: a continuation that matches no occupied slot claims the
\* first free slot, with continuation_anchor at the start of the continuation
\* and occurrence_count = 0 after that occurrence is processed.
ClaimNotTallied == [][ClaimsFirstFreeSlot(0)]_vars

\* C13 amended: the same claim of the first free slot, with occurrence_count
\* = 1 after that occurrence is processed: the claiming occurrence is tallied.
ClaimIsTallied == [][ClaimsFirstFreeSlot(1)]_vars

\* C13 witness: a refresh that claimed a slot other than slot 0, the slots
\* below it being occupied by other continuations.
ClaimIsTalliedWitness ==
    /\ out.op = "map_draft"
    /\ \E s \in 1..Len(out.tally) :
         /\ out.tally[s].claimed
         /\ out.tally[s].idx_value >= 1
         /\ out.tally[s].value_num = 1

\* C14: successive statistics refreshes of one KeyEntry do not overlap: a
\* refresh of an entry that an earlier refresh left at scan_progress > 0
\* (that refresh examined every position up to scan_progress) tallies no key
\* occurrence at a position <= scan_progress.
RefreshesDisjoint ==
    [][(/\ out'.op = "map_draft"
        /\ out'.tally # <<>>
        /\ out'.key_offset < Len(map.keys)
        /\ map.keys[out'.key_offset + 1].stat_idx > 0)
         => \A s \in 1..Len(out'.tally) :
               out'.tally[s].i > map.keys[out'.key_offset + 1].stat_idx]_vars

\* C15: every hit_count and every occurrence_count is <= 16380, and an
\* increment applied to a counter that is at 16380 leaves it at 16380.
CountersSaturate ==
    /\ \A k \in 1..Len(map.keys) :
         /\ map.keys[k].key_num <= COMMON_NGRAM_MAX_VALUE_COUNT
         /\ \A v \in 1..COMMON_NGRAM_MAX_VALUES :
              map.keys[k].values[v].value_num <= COMMON_NGRAM_MAX_VALUE_COUNT
    /\ (/\ out.op = "map_draft"
        /\ out.path \in {"key_only", "min_hits", "gate_reject", "drafted"}
        /\ out.key_num_before = COMMON_NGRAM_MAX_VALUE_COUNT)
         => map.keys[out.key_offset + 1].key_num = COMMON_NGRAM_MAX_VALUE_COUNT
    /\ \A s \in 1..Len(out.tally) :
         out.tally[s].before = COMMON_NGRAM_MAX_VALUE_COUNT
           => out.tally[s].value_num = COMMON_NGRAM_MAX_VALUE_COUNT

\* C15 witness: a draft call that incremented a hit_count and an
\* occurrence_count which both were at 16380 already.
CountersSaturateWitness ==
    /\ out.op = "map_draft"
    /\ out.key_num_before = COMMON_NGRAM_MAX_VALUE_COUNT
    /\ \E s \in 1..Len(out.tally) :
         out.tally[s].before = COMMON_NGRAM_MAX_VALUE_COUNT
    /\ map.keys[out.key_offset + 1].key_num = COMMON_NGRAM_MAX_VALUE_COUNT

\* C16: in key-only mode, when guard and throttle pass and the key has an
\* eligible occurrence, the map draft returns the min(m, accepted_length of
\* slot 0) tokens that follow the most recent one, whatever min_hits and
\* hit_count are, changes no value slot and no scan_progress (a KeyEntry it
\* appends has scan_progress 0 and empty slots), and leaves pending_draft
\* none.
KeyOnlyDraft ==
    [][(/\ out'.op = "map_draft"
        /\ map.key_only
        /\ Len(inp) >= 2 * map.size_key + map.size_value
        /\ Len(inp) - map.idx_last_check >= map.check_rate
        /\ Occurrences(inp, KeyOf(inp, map.size_key, out'.sampled),
                       Len(inp) - map.size_key - map.size_value - 1) # {})
         => LET n == map.size_key
                m == map.size_value
                key == KeyOf(inp, n, out'.sampled)
                match_pos == SetMax(Occurrences(inp, key, Len(inp) - n - m - 1))
                k == ResolvedEntry(map.keys, inp, key)
                len == MinOf(m, IF k = 0 THEN m
                                ELSE map.keys[k].values[1].n_accepted)
            IN  /\ out'.draft = [i \in 1..len |-> inp[match_pos + n + i]]
                /\ ~map'.last_draft_created
                /\ \A i \in 1..Len(map.keys) :
                     /\ map'.keys[i].stat_idx = map.keys[i].stat_idx
                     /\ map'.keys[i].values = map.keys[i].values
                /\ \A i \in (Len(map.keys) + 1)..Len(map'.keys) :
                     /\ map'.keys[i].stat_idx = 0
                     /\ \A v \in 1..COMMON_NGRAM_MAX_VALUES :
                          map'.keys[i].values[v] = EmptyValue(m)
      ]_vars

\* C16 witness: a key-only draft of a key looked up for the first time, in a
\* cache configured with min_hits = 2.
KeyOnlyDraftWitness ==
    /\ out.op = "map_draft" /\ out.path = "key_only"
    /\ map.key_only /\ map.min_hits = 2
    /\ map.keys[out.key_offset + 1].key_num = 1
    /\ out.draft # <<>>
    /\ ~map.last_draft_created

\* C17: in key-only mode the accepted_length of every ValueEntry is m in
\* every reachable state, whatever draft and accept calls were made with
\* whatever accepted_count, and every draft that found a match has length m.
KeyOnlyLengthFixed ==
    map.key_only =>
        /\ \A k \in 1..Len(map.keys) :
             \A v \in 1..COMMON_NGRAM_MAX_VALUES :
                map.keys[k].values[v].n_accepted = map.size_value
        /\ (out.op = "map_draft" /\ out.match_pos > 0)
             => Len(out.draft) = map.size_value

\* C17 witness: an accept that reported an accepted_count other than m right
\* after a key-only draft, the cache holding KeyEntries.
KeyOnlyLengthFixedWitness ==
    /\ map.key_only
    /\ out.op = "map_accept"
    /\ out.prev_op = "map_draft" /\ out.prev_path = "key_only"
    /\ out.n_accepted # map.size_value
    /\ Len(map.keys) >= 1

\* C18: in statistical mode, a matched lookup that leaves the resolved
\* KeyEntry with hit_count < min_hits returns an empty draft and refreshes
\* nothing: scan_progress and the value slots of every KeyEntry are unchanged
\* (those of an appended entry are 0 and empty); and a non-empty draft comes
\* only from an entry with hit_count >= min_hits.
BelowMinHits ==
    [][(out'.op = "map_draft" /\ ~map.key_only) =>
         LET n == map.size_key
             m == map.size_value
             key == KeyOf(inp, n, out'.sampled)
             k == ResolvedEntry(map'.keys, inp, key)
         IN  /\ (/\ Len(inp) >= 2 * n + m
                 /\ Len(inp) - map.idx_last_check >= map.check_rate
                 /\ Occurrences(inp, key, Len(inp) - n - m - 1) # {}
                 /\ k # 0
                 /\ map'.keys[k].key_num < map.min_hits)
                  => /\ out'.draft = <<>>
                     /\ \A i \in 1..Len(map.keys) :
                          /\ map'.keys[i].stat_idx = map.keys[i].stat_idx
                          /\ map'.keys[i].values = map.keys[i].values
                     /\ \A i \in (Len(map.keys) + 1)..Len(map'.keys) :
                          /\ map'.keys[i].stat_idx = 0
                          /\ \A v \in 1..COMMON_NGRAM_MAX_VALUES :
                               map'.keys[i].values[v] = EmptyValue(m)
             /\ out'.draft # <<>> =>
                  (k # 0 /\ map'.keys[k].key_num >= map.min_hits)
      ]_vars

\* C18 witness: the first matched lookup of a key in a cache with min_hits =
\* 2 that already holds another KeyEntry with refreshed statistics.
BelowMinHitsWitness ==
    /\ out.op = "map_draft" /\ ~map.key_only /\ map.min_hits = 2
    /\ out.match_pos > 0 /\ out.draft = <<>>
    /\ out.key_offset < Len(map.keys)
    /\ map.keys[out.key_offset + 1].key_num = 1
    /\ \E i \in 1..Len(map.keys) : map.keys[i].stat_idx > 0

\* C19: a matched lookup resolves to the first existing KeyEntry whose n
\* tokens at anchor_position equal the key, and appends nothing; if there is
\* none it appends exactly one KeyEntry, with anchor_position = match_pos,
\* hit_count 0 before the lookup's increment, scan_progress 0 and every
\* value slot empty (continuation_anchor 0, occurrence_count 0,
\* accepted_length m): a refresh in the same call starts at position 0 and
\* claims every slot the entry has occupied after the call.
KeyResolution ==
    [][(/\ out'.op = "map_draft"
        /\ Len(inp) >= 2 * map.size_key + map.size_value
        /\ Len(inp) - map.idx_last_check >= map.check_rate
        /\ Occurrences(inp, KeyOf(inp, map.size_key, out'.sampled),
                       Len(inp) - map.size_key - map.size_value - 1) # {})
         => LET n == map.size_key
                m == map.size_value
                key == KeyOf(inp, n, out'.sampled)
                match_pos == SetMax(Occurrences(inp, key, Len(inp) - n - m - 1))
                k == ResolvedEntry(map.keys, inp, key)
                last == Len(map.keys) + 1
                tally == out'.tally
                refreshed == ~map.key_only /\ map.min_hits <= 1
            IN  IF k # 0
                THEN /\ Len(map'.keys) = Len(map.keys)
                     /\ out'.key_offset = k - 1
                     /\ out'.key_num_before = map.keys[k].key_num
                     /\ \A i \in 1..Len(map.keys) :
                          map'.keys[i].key_num =
                            map.keys[i].key_num + (IF i = k THEN 1 ELSE 0)
                ELSE /\ Len(map'.keys) = last
                     /\ \A i \in 1..Len(map.keys) : map'.keys[i] = map.keys[i]
                     /\ out'.key_offset = last - 1
                     /\ map'.keys[last].key_idx = match_pos
                     /\ out'.key_num_before = 0
                     /\ map'.keys[last].key_num = 1
                     /\ ~refreshed =>
                          /\ map'.keys[last].stat_idx = 0
                          /\ \A v \in 1..COMMON_NGRAM_MAX_VALUES :
                               map'.keys[last].values[v] =
                                 [value_idx |-> 0, value_num |-> 0,
                                  n_accepted |-> m]
                     /\ refreshed =>
                          /\ {tally[s].i : s \in 1..Len(tally)} =
                               {i \in 0..match_pos : Window(inp, i, n) = key}
                          /\ \A v \in 1..COMMON_NGRAM_MAX_VALUES :
                               /\ map'.keys[last].values[v].n_accepted = m
                               /\ map'.keys[last].values[v].value_idx # 0 =>
                                    \E s \in 1..Len(tally) :
                                       /\ tally[s].claimed
                                       /\ tally[s].idx_value = v - 1
                               /\ map'.keys[last].values[v].value_idx = 0 =>
                                    map'.keys[last].values[v].value_num = 0
      ]_vars

\* C19 witness: a lookup that appended a second KeyEntry, the first entry
\* holding another key.
KeyResolutionWitness ==
    /\ out.op = "map_draft" /\ out.match_pos > 0
    /\ Len(map.keys) = 2
    /\ out.key_offset = 1
    /\ out.key_num_before = 0
    /\ map.keys[2].key_idx = out.match_pos

\* C20: the keys list only grows: every step keeps every existing KeyEntry
\* at its index with its anchor_position, a draft call appends at most one
\* entry, and accept (like every other step) leaves the length unchanged.
KeysOnlyGrow ==
    [][/\ Len(map'.keys) >= Len(map.keys)
       /\ Len(map'.keys) <= Len(map.keys) + 1
       /\ \A i \in 1..Len(map.keys) :
            map'.keys[i].key_idx = map.keys[i].key_idx
       /\ out'.op # "map_draft" => Len(map'.keys) = Len(map.keys)
      ]_vars

\* C20 witness: a lookup resolved to the first KeyEntry again after a second
\* one had been appended behind it.
KeysOnlyGrowWitness ==
    /\ out.op = "map_draft" /\ out.match_pos > 0
    /\ Len(map.keys) >= 2
    /\ out.key_offset = 0
    /\ out.key_num_before >= 1

\* C21: a draft call on a KeyEntry whose 4 slots are all occupied replaces
\* no anchor and adds to each slot's count exactly the key occurrences it
\* tallied whose continuation equals that slot's, so an occurrence whose
\* continuation matches no slot changes nothing; and no step ever changes a
\* continuation_anchor that is non-zero.
FullSlotsKeep ==
    [][/\ \A i \in 1..Len(map.keys) : \A v \in 1..COMMON_NGRAM_MAX_VALUES :
            map.keys[i].values[v].value_idx # 0 =>
              map'.keys[i].values[v].value_idx = map.keys[i].values[v].value_idx
       /\ (/\ out'.op = "map_draft"
           /\ out'.tally # <<>>
           /\ out'.key_offset < Len(map.keys)
           /\ \A v \in 1..COMMON_NGRAM_MAX_VALUES :
                map.keys[out'.key_offset + 1].values[v].value_idx # 0)
            => LET n == map.size_key
                   m == map.size_value
                   before == map.keys[out'.key_offset + 1].values
                   after == map'.keys[out'.key_offset + 1].values
                   tally == out'.tally
               IN  \A v \in 1..COMMON_NGRAM_MAX_VALUES :
                      after[v].value_num = before[v].value_num +
                        Cardinality({s \in 1..Len(tally) :
                           Window(inp, tally[s].i + n, m)
                             = Window(inp, before[v].value_idx, m)})
      ]_vars

\* C21 witness: a refresh of a KeyEntry whose 4 slots were occupied before
\* the call (it claimed none) met a key occurrence whose continuation is in
\* none of them.
FullSlotsKeepWitness ==
    /\ out.op = "map_draft" /\ out.tally # <<>>
    /\ \A s \in 1..Len(out.tally) : ~out.tally[s].claimed
    /\ \A v \in 1..COMMON_NGRAM_MAX_VALUES :
         map.keys[out.key_offset + 1].values[v].value_idx # 0
    /\ \E s \in 1..Len(out.tally) :
         \A v \in 1..COMMON_NGRAM_MAX_VALUES :
            Window(inp, out.tally[s].i + map.size_key, map.size_value)
              # Window(inp, map.keys[out.key_offset + 1].values[v].value_idx,
                       map.size_value)

\* C22: a map draft call with len(history) < 2*n + m returns an empty draft
\* and leaves last_checked_position and all KeyEntries unchanged; pending_draft
\* is none after it.
MapGuardFrame ==
    [][(out'.op = "map_draft"
          /\ Len(inp) < 2 * map.size_key + map.size_value)
         => /\ out'.draft = <<>>
            /\ map'.idx_last_check = map.idx_last_check
            /\ map'.keys = map.keys
            /\ ~map'.last_draft_created]_vars

\* C22 witness: a call on a history one token short of 2*n + m, with n = 2.
MapGuardFrameWitness ==
    /\ out.op = "map_draft" /\ out.draft = <<>>
    /\ map.size_key = 2
    /\ Len(inp) = 2 * map.size_key + map.size_value - 1
    /\ map.idx_last_check = 0

\* C23: a map draft call that passes the guard and the throttle leaves
\* last_checked_position = len(history), whatever exit it takes.
MapCheckRecorded ==
    [][(/\ out'.op = "map_draft"
        /\ Len(inp) >= 2 * map.size_key + map.size_value
        /\ Len(inp) - map.idx_last_check >= map.check_rate)
         => map'.idx_last_check = Len(inp)]_vars

\* C23 witness: a call that the confidence gate rejected, with the check
\* recorded at the end of the history.
MapCheckRecordedWitness ==
    /\ out.op = "map_draft" /\ out.path = "gate_reject"
    /\ out.draft = <<>>
    /\ map.idx_last_check = Len(inp)

AcceptOnFreshCache ==
    [][(/\ out'.op = "map_accept"
        /\ map = FreshMap(map.size_key, map.size_value, map.key_only,
                          map.check_rate, map.min_hits))
         => /\ out'.key_reads = {}
            /\ map' = map]_vars

\* C25 witness: accept with accepted_count > 0 as the first call of a
\* sequence, before any draft call and any token.
AcceptOnFreshCacheWitness ==
    /\ out.op = "map_accept" /\ out.prev_op = "init"
    /\ out.n_accepted > 0
    /\ inp = <<>>
    /\ map.keys = <<>>

\* C26: of two accept calls in a row, the first finding pending_draft set,
\* the second finds it set too and writes its accepted_count to the same
\* ValueEntry, the one the last draft recorded; nothing else changes.
AcceptTwice ==
    [][(out.op = "map_accept" /\ out.had_pending /\ out'.op = "map_accept")
         => /\ out'.had_pending
            /\ out'.key_offset = out.key_offset
            /\ out'.slot_max = out.slot_max
            /\ out'.key_reads = {out.key_offset}
            /\ map' = [map EXCEPT
                         !.keys[out.key_offset + 1].values[out.slot_max + 1]
                             .n_accepted = out'.n_accepted]]_vars

\* C26 witness: the second of two accept calls in a row, made with
\* pending_draft set.
AcceptTwiceWitness ==
    /\ out.op = "map_accept" /\ out.prev_op = "map_accept"
    /\ out.had_pending
    /\ map.keys[out.key_offset + 1].values[out.slot_max + 1].n_accepted
         = out.n_accepted

\* C27: every KeyEntry has anchor_position >= 1, and every value slot has
\* continuation_anchor >= 1 unless it is empty, where it is 0 with
\* occurrence_count 0: nothing is anchored at position 0.
NoAnchorAtZero ==
    \A k \in 1..Len(map.keys) :
       /\ map.keys[k].key_idx >= 1
       /\ \A v \in 1..COMMON_NGRAM_MAX_VALUES :
            LET value == map.keys[k].values[v]
            IN  \/ value.value_idx >= 1
                \/ value.value_idx = 0 /\ value.value_num = 0

\* C27 witness: the key stands at position 0 of the history and the refresh
\* tallied that occurrence; its continuation is anchored at n.
NoAnchorAtZeroWitness ==
    /\ out.op = "map_draft" /\ out.tally # <<>>
    /\ out.tally[1].i = 0 /\ out.tally[1].claimed
    /\ map.keys[out.key_offset + 1].values[1].value_idx = map.size_key
    /\ map.keys[out.key_offset + 1].key_idx >= 1

\* Value slots with the occurrence counts c[1] .. c[4].
SlotsWithCounts(c, m) ==
    [v \in 1..COMMON_NGRAM_MAX_VALUES |->
       [value_idx |-> IF c[v] = 0 THEN 0 ELSE v, value_num |-> c[v],
        n_accepted |-> m]]

\* C28: slot_max is the lowest-index slot among those with the largest
\* occurrence_count: in every draft call that reached the selection, and for
\* the selection loop applied to every vector of four counts in 0..MaxCount,
\* the all-zero vector (slot 0) included.
SlotMaxIsFirstMax ==
    (out.op = "map_draft" /\ out.path \in {"gate_reject", "drafted"}) =>
        /\ out.slot_max = BestSlot(map.keys[out.key_offset + 1].values) - 1
        /\ \A c \in [1..COMMON_NGRAM_MAX_VALUES -> 0..MaxCount] :
             LET values == SlotsWithCounts(c, map.size_value)
             IN  SlotMaxFrom(values, 0, 0, 0).slot_max = BestSlot(values) - 1
        /\ SlotMaxFrom(SlotsWithCounts([v \in 1..COMMON_NGRAM_MAX_VALUES |-> 0],
                                       map.size_value), 0, 0, 0).slot_max = 0

\* C28 witness: a selection among two slots with equal, largest counts took
\* the lower one.
SlotMaxIsFirstMaxWitness ==
    /\ out.op = "map_draft" /\ out.path \in {"gate_reject", "drafted"}
    /\ out.slot_max = 0
    /\ LET values == map.keys[out.key_offset + 1].values
       IN  /\ values[1].value_num >= 1
           /\ values[2].value_num = values[1].value_num
           /\ \A v \in 1..COMMON_NGRAM_MAX_VALUES :
                values[v].value_num <= values[1].value_num

\* C30: in statistical mode a non-empty draft is a prefix of the
\* continuation stored in the selected slot, the one pending_draft names:
\* draft[i] = history[continuation_anchor(slot_max) + i - 1].
DraftIsSelectedContinuation ==
    (out.op = "map_draft" /\ ~map.key_only /\ out.draft # <<>>) =>
        LET value == map.keys[map.last_draft_key_idx + 1]
                        .values[map.last_draft_value_idx + 1]
        IN  /\ map.last_draft_created
            /\ map.last_draft_value_idx = out.slot_max
            /\ \A i \in 1..Len(out.draft) :
                 out.draft[i] = inp[value.value_idx + i]

\* The scan_progress of the KeyEntry a map draft call resolves, as it is
\* before the call (0 for the entry the call appends).
ProgressBefore(keys, key_offset) ==
    IF key_offset < Len(keys) THEN keys[key_offset + 1].stat_idx ELSE 0

\* C31: a statistics refresh meets exactly the positions i in
\* [scan_progress, match_pos] at which the key occurs; an occurrence whose
\* continuation equals the content of a slot occupied at that moment (before
\* the call, or claimed earlier in it) is attributed to that slot and claims
\* nothing, and the slot's occurrence_count goes up by one
\* (saturating at 16380); the anchor and the accepted_length of an occupied
\* slot do not change, and its count changes by nothing but the occurrences
\* attributed to it.
RefreshTalliesMatches ==
    [][(out'.op = "map_draft" /\ out'.path \in {"gate_reject", "drafted"})
         => LET n == map.size_key
                m == map.size_value
                key == KeyOf(inp, n, out'.sampled)
                before == SlotsBefore(map.keys, out'.key_offset, m)
                after == map'.keys[out'.key_offset + 1].values
                from == ProgressBefore(map.keys, out'.key_offset)
                tally == out'.tally
            IN  /\ {tally[s].i : s \in 1..Len(tally)} =
                     {i \in from..out'.match_pos : Window(inp, i, n) = key}
                /\ \A s, t \in 1..Len(tally) : s < t => tally[s].i < tally[t].i
                /\ \A s, t \in 1..Len(tally) :
                     (/\ s < t
                      /\ tally[s].idx_value >= 0
                      /\ Window(inp, tally[s].i + n, m)
                           = Window(inp, tally[t].i + n, m))
                       => /\ tally[t].idx_value = tally[s].idx_value
                          /\ ~tally[t].claimed
                          /\ tally[t].value_num =
                               MinOf(tally[t].before + 1,
                                     COMMON_NGRAM_MAX_VALUE_COUNT)
                /\ \A v \in 1..COMMON_NGRAM_MAX_VALUES :
                     before[v].value_idx # 0 =>
                       LET mine == {s \in 1..Len(tally) :
                                      Window(inp, tally[s].i + n, m)
                                        = Window(inp, before[v].value_idx, m)}
                       IN  /\ \A s \in mine :
                                /\ tally[s].idx_value = v - 1
                                /\ ~tally[s].claimed
                                /\ tally[s].value_num =
                                     MinOf(tally[s].before + 1,
                                           COMMON_NGRAM_MAX_VALUE_COUNT)
                           /\ after[v].value_idx = before[v].value_idx
                           /\ after[v].n_accepted = before[v].n_accepted
                           /\ after[v].value_num =
                                MinOf(before[v].value_num + Cardinality(mine),
                                      COMMON_NGRAM_MAX_VALUE_COUNT)
      ]_vars

\* C31 witness: a refresh of an existing KeyEntry attributed an occurrence to
\* a slot other than slot 0 that was occupied before the call, and met a
\* position in its range at which the key does not occur.
RefreshTalliesMatchesWitness ==
    /\ out.op = "map_draft" /\ out.path \in {"gate_reject", "drafted"}
    /\ out.key_num_before >= 1
    /\ \E s \in 1..Len(out.tally) :
         /\ ~out.tally[s].claimed
         /\ out.tally[s].idx_value >= 1
         /\ out.tally[s].before >= 1
    /\ \E s \in 1..(Len(out.tally) - 1) :
         out.tally[s + 1].i > out.tally[s].i + 1

\* C32: the history only being appended to, no step lowers the scan_progress
\* of a KeyEntry, only the entry a draft call refreshes changes its
\* scan_progress, and after a statistics refresh the scan_progress of the
\* refreshed entry is the match_pos of that call.
ScanProgressMonotone ==
    [][/\ \A i \in 1..Len(map.keys) :
            /\ map'.keys[i].stat_idx >= map.keys[i].stat_idx
            /\ (out'.op = "map_draft"
                  /\ out'.path \in {"gate_reject", "drafted"}
                  /\ i = out'.key_offset + 1)
                 \/ map'.keys[i].stat_idx = map.keys[i].stat_idx
       /\ (out'.op = "map_draft" /\ out'.path \in {"gate_reject", "drafted"})
            => map'.keys[out'.key_offset + 1].stat_idx = out'.match_pos
       /\ (out'.op = "map_draft" /\ out'.path \in {"key_only", "min_hits"})
            => map'.keys[out'.key_offset + 1].stat_idx =
                 ProgressBefore(map.keys, out'.key_offset)
      ]_vars

\* C32 witness: with min_hits = 1, a third or later lookup of a KeyEntry
\* refreshed it from a scan_progress >= 1 up to a later match_pos.
ScanProgressMonotoneWitness ==
    /\ out.op = "map_draft" /\ out.path \in {"gate_reject", "drafted"}
    /\ map.min_hits = 1
    /\ out.key_num_before >= 2
    /\ out.tally # <<>>
    /\ out.tally[1].i >= 1
    /\ out.match_pos > out.tally[1].i
    /\ map.keys[out.key_offset + 1].stat_idx = out.match_pos

\* ----------------------------------------------------------- in-contract run
\* The sequences of the map implementation in which the decoding loop gives
\* feedback as it is meant to: at most once after a draft call, with
\* 0 <= n_accepted <= len(draft).
InitContract == Init /\ engine = "map"

NextContract == AppendToken \/ MapDraft \/ AcceptInContract

ContractSpec == InitContract /\ [][NextContract]_vars

\* C33: when feedback is given at most once after a draft with
\* 0 <= accepted_count <= len(draft), no step raises the accepted_length of
\* any value slot (it stays within 0..m), and a draft that selects a slot
\* whose accepted_length is 0 is empty; so a slot at 0 stays at 0.
AcceptedLengthOnlyFalls ==
    [][/\ \A k \in 1..Len(map.keys) : \A v \in 1..COMMON_NGRAM_MAX_VALUES :
            /\ map'.keys[k].values[v].n_accepted
                 <= map.keys[k].values[v].n_accepted
            /\ map'.keys[k].values[v].n_accepted >= 0
       /\ \A k \in 1..Len(map'.keys) : \A v \in 1..COMMON_NGRAM_MAX_VALUES :
            map'.keys[k].values[v].n_accepted <= map.size_value
       /\ (/\ out'.op = "map_draft" /\ out'.path = "drafted"
           /\ SlotsBefore(map.keys, out'.key_offset, map.size_value)
                [out'.slot_max + 1].n_accepted = 0)
            => /\ out'.draft = <<>>
               /\ map'.keys[out'.key_offset + 1].values[out'.slot_max + 1]
                    .n_accepted = 0
      ]_vars

\* C33 witness: with m = 2, a slot was brought down to accepted_length 0 by
\* feedback, and a later draft call selected it and returned an empty draft.
AcceptedLengthOnlyFallsWitness ==
    /\ out.op = "map_draft" /\ out.path = "drafted"
    /\ map.size_value = 2
    /\ out.draft = <<>>
    /\ map.keys[out.key_offset + 1].values[out.slot_max + 1].n_accepted = 0

\* C34: every draft returned by the map (either mode) or by the simple
\* drafter has at most m tokens, and a non-empty one is the slice of the
\* history that starts right after an occurrence of the key (at match_pos + n)
\* and lies within the history; also after accept calls that reported an
\* accepted_count greater than m.
DraftIsHistorySlice ==
    out.op \in {"map_draft", "simple_draft"} =>
      LET n == IF out.op = "map_draft" THEN map.size_key ELSE state.size_ngram
          m == IF out.op = "map_draft" THEN map.size_value ELSE state.size_mgram
          len == Len(out.draft)
      IN  /\ len <= m
          /\ len > 0 =>
               /\ out.match_pos >= 1
               /\ out.match_pos + n + len <= Len(inp)
               /\ Window(inp, out.match_pos, n) = KeyOf(inp, n, out.sampled)
               /\ out.draft = Window(inp, out.match_pos + n, len)

\* C34 witness: a statistical map draft of m tokens from a slot whose
\* accepted_length an accept call had set above m.
DraftIsHistorySliceWitness ==
    /\ out.op = "map_draft" /\ out.path = "drafted"
    /\ Len(out.draft) = map.size_value
    /\ map.keys[out.key_offset + 1].values[out.slot_max + 1].n_accepted
         > map.size_value

\* The hit_count of the KeyEntry a map draft call resolves, as it is before
\* the call (0 for the entry the call appends).
HitsBefore(keys, key_offset) ==
    IF key_offset < Len(keys) THEN keys[key_offset + 1].key_num ELSE 0

\* C35: a map draft call that passes the guard and the throttle and whose
\* key search finds the key raises the hit_count of the KeyEntry it resolves
\* by exactly one (saturating at 16380) and leaves the hit_count of every
\* other entry; so does a call that then returns empty at the min_hits test
\* or at the confidence gate. No other step changes a hit_count.
HitCountedOnce ==
    [][LET n == map.size_key
           m == map.size_value
           found == /\ out'.op = "map_draft"
                    /\ Len(inp) >= 2 * n + m
                    /\ Len(inp) - map.idx_last_check >= map.check_rate
                    /\ Occurrences(inp, KeyOf(inp, n, out'.sampled),
                                   Len(inp) - n - m - 1) # {}
       IN  /\ found =>
                /\ out'.key_offset < Len(map'.keys)
                /\ map'.keys[out'.key_offset + 1].key_num =
                     MinOf(HitsBefore(map.keys, out'.key_offset) + 1,
                           COMMON_NGRAM_MAX_VALUE_COUNT)
                /\ \A i \in 1..Len(map.keys) :
                     i # out'.key_offset + 1 =>
                       map'.keys[i].key_num = map.keys[i].key_num
           /\ out'.path \in {"min_hits", "gate_reject"} =>
                (found /\ out'.draft = <<>>)
           /\ ~found =>
                /\ Len(map'.keys) = Len(map.keys)
                /\ \A i \in 1..Len(map.keys) :
                     map'.keys[i].key_num = map.keys[i].key_num
      ]_vars

\* C35 witness: a lookup of an existing KeyEntry was counted although the
\* call returned empty at the confidence gate, a second entry being present.
HitCountedOnceWitness ==
    /\ out.op = "map_draft" /\ out.path = "gate_reject"
    /\ Len(map.keys) >= 2
    /\ out.key_num_before >= 1
    /\ map.keys[out.key_offset + 1].key_num = out.key_num_before + 1

\* C36: whenever pending_draft is set, its key index is below len(keys), its
\* slot index is below 4, and the slot it names is occupied
\* (continuation_anchor != 0, occurrence_count >= 1); and accept indexes the
\* keys list only within it.
PendingDraftIsValid ==
    /\ map.last_draft_created =>
         /\ map.last_draft_key_idx >= 0
         /\ map.last_draft_key_idx < Len(map.keys)
         /\ map.last_draft_value_idx >= 0
         /\ map.last_draft_value_idx < COMMON_NGRAM_MAX_VALUES
         /\ LET slot == map.keys[map.last_draft_key_idx + 1]
                          .values[map.last_draft_value_idx + 1]
            IN  /\ slot.value_idx # 0
                /\ slot.value_num >= 1
    /\ out.op = "map_accept" =>
         out.key_reads \subseteq 0..(Len(map.keys) - 1)

\* C36 witness: accept wrote its feedback through a pending_draft that names
\* a KeyEntry other than the first and a slot other than slot 0.
PendingDraftIsValidWitness ==
    /\ out.op = "map_accept" /\ out.had_pending
    /\ map.last_draft_created
    /\ map.last_draft_key_idx >= 1
    /\ map.last_draft_value_idx >= 1
    /\ map.keys[map.last_draft_key_idx + 1]
         .values[map.last_draft_value_idx + 1].n_accepted = out.n_accepted

\* C37: in every KeyEntry the occupied value slots are a prefix of the slot
\* array, and the m tokens at the anchors of two different occupied slots of
\* one KeyEntry differ.
SlotsPrefixAndDistinct ==
    \A k \in 1..Len(map.keys) :
      LET values == map.keys[k].values
          m == map.size_value
      IN  /\ \A v, w \in 1..COMMON_NGRAM_MAX_VALUES :
               (w < v /\ values[v].value_idx # 0) => values[w].value_idx # 0
          /\ \A v, w \in 1..COMMON_NGRAM_MAX_VALUES :
               (/\ v # w
                /\ values[v].value_idx # 0
                /\ values[w].value_idx # 0)
                 => /\ values[v].value_idx + m <= Len(inp)
                    /\ Window(inp, values[v].value_idx, m)
                         # Window(inp, values[w].value_idx, m)

\* C37 witness: a refresh attributed an occurrence to an occupied slot of a
\* KeyEntry that has three occupied slots.
SlotsPrefixAndDistinctWitness ==
    /\ out.op = "map_draft" /\ out.tally # <<>>
    /\ \E s \in 1..Len(out.tally) :
         ~out.tally[s].claimed /\ out.tally[s].idx_value >= 0
    /\ map.keys[out.key_offset + 1].values[3].value_idx # 0

\* C38: the history only being appended to, no two KeyEntries have the same
\* n tokens at their anchor positions (and every anchor's n tokens lie within
\* the history).
KeysDistinct ==
    \A i, j \in 1..Len(map.keys) :
      /\ map.keys[i].key_idx + map.size_key <= Len(inp)
      /\ i # j =>
           Window(inp, map.keys[i].key_idx, map.size_key)
             # Window(inp, map.keys[j].key_idx, map.size_key)

\* C38 witness: a lookup resolved to the second of two KeyEntries, which had
\* been looked up before, and appended no third one.
KeysDistinctWitness ==
    /\ out.op = "map_draft" /\ out.match_pos > 0
    /\ Len(map.keys) = 2
    /\ out.key_offset = 1
    /\ out.key_num_before >= 1

\* C39: a simple-drafter call that passes the throttle and the length
\* precondition leaves last_checked_position = len(history), also when it
\* returns empty for want of a match or of a long enough continuation; and a
\* call made before the history has grown by check_rate tokens past
\* last_checked_position is throttled: it returns empty and changes nothing.
SimpleCheckRecorded ==
    [][out'.op = "simple_draft" =>
         LET n == state.size_ngram
             m == state.size_mgram
             throttled == Len(inp) - state.idx_last_check < state.check_rate
             too_short == Len(inp) <= n + m + 1
         IN  /\ (~throttled /\ ~too_short) =>
                  /\ state'.idx_last_check = Len(inp)
                  /\ out'.path \in {"no_match", "short_copy", "drafted"}
                  /\ out'.path \in {"no_match", "short_copy"} =>
                       out'.draft = <<>>
             /\ throttled =>
                  /\ out'.path = "throttled"
                  /\ out'.draft = <<>>
                  /\ state' = state
      ]_vars

\* C39 witness: with check_rate = 2, a call that found a match but returned
\* empty because the continuation was shorter than key_len recorded the
\* check at len(history).
SimpleCheckRecordedWitness ==
    /\ out.op = "simple_draft" /\ out.path = "short_copy"
    /\ out.draft = <<>>
    /\ state.check_rate = 2
    /\ state.idx_last_check = Len(inp)

\* C40: the simple drafter looks at the most recent occurrence of the pattern
\* only: when fewer than key_len history tokens follow it, or
\* continuation_len < key_len, the call returns empty whether or not an
\* earlier occurrence is followed by key_len tokens or more, and no draft
\* is ever taken from an earlier occurrence.
SimpleNoFallback ==
    (out.op = "simple_draft" /\ out.path \notin {"throttled", "too_short"}) =>
        LET n == state.size_ngram
            m == state.size_mgram
            occ == Occurrences(inp, KeyOf(inp, n, out.sampled), Len(inp) - n - 1)
        IN  occ # {} =>
              LET recent == SetMax(occ)
              IN  /\ out.match_pos = recent
                  /\ (Len(inp) - (recent + n) < n \/ m < n) =>
                       /\ out.draft = <<>>
                       /\ out.path = "short_copy"
                  /\ out.draft # <<>> =>
                       /\ recent + n + Len(out.draft) <= Len(inp)
                       /\ out.draft = Window(inp, recent + n, Len(out.draft))

\* C40 witness: the call returned empty because one token follows the most
\* recent occurrence of a 2-token pattern, while an earlier occurrence is
\* followed by at least key_len tokens and continuation_len >= key_len.
SimpleNoFallbackWitness ==
    /\ out.op = "simple_draft" /\ out.path = "short_copy" /\ out.draft = <<>>
    /\ state.size_mgram >= state.size_ngram
    /\ \E j \in Occurrences(inp, KeyOf(inp, state.size_ngram, out.sampled),
                            Len(inp) - state.size_ngram - 1) :
         /\ j < out.match_pos
         /\ Len(inp) - (j + state.size_ngram) >= state.size_ngram

=============================================================================
